---- MODULE Spec2Model ----
(***************************************************************************)
(* Model of the pagination core of the Pivotal Tracker client              *)
(* (src/index.js): Pivotal.prototype.paginated, the collection wrapper     *)
(* getStories that starts it (getActivity and getIterations differ only in *)
(* the path) and the outcomes Pivotal.prototype.api hands to its callback. *)
(*                                                                         *)
(* Every invocation of paginated() is an activation record in `calls`: it  *)
(* issues one request when it is created, owns its own `offset` variable   *)
(* and, once its response is a page, the continuation closure handed to    *)
(* the caller.  JavaScript values are modelled as strings ("null",         *)
(* "undefined", an error code, a kind of response body); numbers are       *)
(* integers.                                                               *)
(***************************************************************************)
EXTENDS Integers, Sequences, FiniteSets, TLC

\* ------------------------------------------------------------------ bounds
\* largest initial offset a caller passes
MaxOffset == 1
\* largest page size a caller passes
MaxLimit == 2
\* largest pagination.total a response carries
MaxTotal == 2
\* largest pagination.returned a response carries
MaxReturned == 1
\* paginated() invocations (requests) per pagination run
MaxCalls == 3
\* times the caller invokes one page's continuation
MaxContCalls == 2

\* ------------------------------------------------------- program constants
\* limit || 128
DefaultLimit == 128
\* offset || 0
DefaultOffset == 0

\* ------------------------------------------------------------- JS values
\* an argument the caller did not pass (undefined) where a number is expected
Absent == -1

Truthy(v) == v \notin {"null", "undefined", "false", ""}

\* a || b on values modelled as strings
JsOr(a, b) == IF Truthy(a) THEN a ELSE b

\* the default taken whatever was passed
NumOrAlwaysDefault(n, d) == d

\* n || d on a numeric argument: undefined and 0 are falsy
NumOr(n, d) == IF n = Absent \/ n = 0 THEN d ELSE n

Min(a, b) == IF a < b THEN a ELSE b

Max(a, b) == IF a > b THEN a ELSE b

\* _.extend(dest, src): every key of src is copied onto dest
Extend(dest, src) ==
    [k \in DOMAIN dest \cup DOMAIN src |->
        IF k \in DOMAIN src THEN src[k] ELSE dest[k]]

\* ---------------------------------------------------------------- inputs
Runs == {1, 2}

\* the options (extraParams) objects callers pass; NoOptions is {} or undefined
NoOptions == [k \in {} |-> 0]
Options ==
    { NoOptions,
      [k \in {"filter"} |-> "state:started"],
      [k \in {"offset", "limit", "envelope", "filter"} |->
          CASE k = "offset" -> 7
            [] k = "limit" -> 9
            [] k = "envelope" -> FALSE
            [] OTHER -> "state:started"] }

\* errors the transport (request) reports
TransportErrors == {"ECONNRESET"}

\* parsed response bodies that carry no pagination field
PlainBodies == {"bareArray"}

\* what the transport hands to api's callback for one request:
\* (err, undefined) on failure, (null, body) on success; a body is undefined
\* (empty response), a body without pagination, or an envelope
Outcomes ==
    {[err |-> e, res |-> "undefined", returned |-> 0, total |-> 0] :
        e \in TransportErrors}
    \cup {[err |-> "null", res |-> b, returned |-> 0, total |-> 0] :
        b \in {"undefined"} \cup PlainBodies}
    \cup {[err |-> "null", res |-> "envelope", returned |-> n, total |-> t] :
        n \in 0..MaxReturned, t \in 0..MaxTotal}

\* ----------------------------------------------------------------- state
VARIABLES
    toStart,    \* the pagination runs the caller has yet to start
    runs,       \* per run: the arguments the caller passed to the wrapper
    calls,      \* activation records of paginated(), in order of issue
    pages,      \* invocations of the caller's onPage callback, in order
    completes,  \* invocations of the caller's onComplete callback, in order
    apis,       \* activation records of api(), in order of call
    http,       \* requests handed to request() by api and postAttachment
    invoked,    \* invocations of the callbacks passed to api and postAttachment
    attach,     \* activation records of postAttachment(), in order of call
    thrown      \* exceptions raised out of postAttachment's upload handler

\* the state of direct api() and postAttachment() calls
apiVars == <<apis, http, invoked, attach, thrown>>

\* the state of pagination runs
pagVars == <<toStart, runs, calls, pages, completes>>

vars == <<toStart, runs, calls, pages, completes,
          apis, http, invoked, attach, thrown>>

Idle ==
    [started |-> FALSE, path |-> "", offset |-> Absent, limit |-> Absent,
     options |-> NoOptions, callback |-> FALSE, completed |-> FALSE]

CallsOf(r) == {c \in 1..Len(calls) : calls[c].run = r}

\* the query of the request paginated() issues
Query(offset, limit, options) ==
    Extend([k \in {"offset", "limit", "envelope"} |->
               CASE k = "offset" -> offset
                 [] k = "limit" -> limit
                 [] OTHER -> TRUE],
           options)

\* the offset kept on the client object, shared by every run
PaginatedSharedOffset(r, parent, path, offset, limit, options) ==
    LET shared == IF calls = <<>> THEN offset ELSE calls[Len(calls)].offset IN
    [run |-> r, parent |-> parent, path |-> path,
     reqOffset |-> shared, offset |-> shared, limit |-> limit,
     qs |-> Query(shared, limit, options),
     st |-> "inflight",
     err |-> "null", res |-> "undefined", returned |-> 0, total |-> 0,
     conts |-> <<>>]

\* paginated(path, offset, limit, options, callback, completed): the request
\* is issued at once; the record keeps the invocation's local variables
Paginated(r, parent, path, offset, limit, options) ==
    [run |-> r, parent |-> parent, path |-> path,
     reqOffset |-> offset, offset |-> offset, limit |-> limit,
     qs |-> Query(offset, limit, options),
     st |-> "inflight",
     err |-> "null", res |-> "undefined", returned |-> 0, total |-> 0,
     conts |-> <<>>]

Init ==
    /\ toStart = {1}
    /\ runs = [r \in Runs |-> Idle]
    /\ calls = <<>>
    /\ pages = <<>>
    /\ completes = <<>>
    /\ apis = <<>>
    /\ http = <<>>
    /\ invoked = <<>>
    /\ attach = <<>>
    /\ thrown = <<>>

\* getStories(projectId, options, callback, completed, offset, limit):
\* this.paginated(path, offset || 0, limit || 128, options, callback, completed)
Start(r, path, options, callback, completed, offset, limit) ==
    /\ r \in toStart
    /\ toStart' = toStart \ {r}
    /\ runs' = [runs EXCEPT ![r] =
           [started |-> TRUE, path |-> path, offset |-> offset, limit |-> limit,
            options |-> options, callback |-> callback, completed |-> completed]]
    /\ calls' = Append(calls,
           Paginated(r, 0, path, NumOr(offset, DefaultOffset), NumOr(limit, DefaultLimit),
                     options))
    /\ UNCHANGED <<pages, completes, apiVars>>

StartArgs(r, path) ==
    \E options \in Options, callback \in BOOLEAN, completed \in BOOLEAN,
       offset \in {Absent} \cup 0..MaxOffset, limit \in {Absent} \cup 0..MaxLimit :
        Start(r, path, options, callback, completed, offset, limit)

getStories(r) == StartArgs(r, "projects/1/stories")

\* err || !res.pagination (line 222): which way the handler goes; reading
\* .pagination of undefined or null raises a TypeError
Classify(err, res) ==
    IF Truthy(err) THEN "fail"
    ELSE IF res \in {"undefined", "null"} THEN "throw"
    ELSE IF res # "envelope" THEN "fail"
    ELSE "page"

\* completed(err): the malformed response dropped
FailureArgsErrOnly(err, res) == <<err>>

\* the arguments of completed(err || res)
FailureArgs(err, res) == <<JsOr(err, res)>>

\* the offset left where it was
AdvanceStuck(offset, returned) == offset

\* the offset advanced by one page rather than by the items returned
AdvanceByOne(offset, returned) == offset + 1

\* offset += res.pagination.returned
Advance(offset, returned) == offset + returned

\* left taken as the total, the offset forgotten
LeftIgnoringOffset(total, offset) == total

\* var left = res.pagination.total - offset
Left(total, offset) == total - offset

\* Math.max in place of Math.min
NextLimitMax(left, limit) == Max(left, limit)

\* the limit passed on without the reduction
NextLimitUnreduced(left, limit) == limit

\* Math.min(left, limit)
NextLimit(left, limit) == Min(left, limit)

\* the next request issued whatever the caller passed
DecideIgnoringCont(cont, left) ==
    IF left > 0 THEN "request" ELSE IF cont THEN "exhausted" ELSE "declined"

\* the exhaustion test as left >= 0
DecideAtZero(cont, left) ==
    IF cont
    THEN IF left >= 0 THEN "request" ELSE "exhausted"
    ELSE "declined"

\* the exhaustion test off by one: left > 1
DecideOffByOne(cont, left) ==
    IF cont
    THEN IF left > 1 THEN "request" ELSE "exhausted"
    ELSE "declined"

\* what continuation(cont) does: issue the next request or call completed()
Decide(cont, left) ==
    IF cont
    THEN IF left > 0 THEN "request" ELSE "exhausted"
    ELSE "declined"

\* completed() left out of the branch that declines
CompletedUnlessDeclined(r, c, via, args) ==
    IF runs[r].completed /\ via # "declined"
    THEN Append(completes, [run |-> r, call |-> c, via |-> via, args |-> args])
    ELSE completes

\* completed && completed(args...)
Completed(r, c, via, args) ==
    IF runs[r].completed
    THEN Append(completes, [run |-> r, call |-> c, via |-> via, args |-> args])
    ELSE completes

\* the handler paginated() gives to api, run on the transport's outcome
Respond(c, o) ==
    /\ c \in 1..Len(calls)
    /\ calls[c].st = "inflight"
    /\ LET r == calls[c].run
           rec == [calls[c] EXCEPT !.err = o.err, !.res = o.res,
                                   !.returned = o.returned, !.total = o.total]
           way == Classify(o.err, o.res)
       IN
       CASE way = "fail" ->
            /\ calls' = [calls EXCEPT ![c] = [rec EXCEPT !.st = "failed"]]
            /\ completes' = Completed(r, c, "failure", FailureArgs(o.err, o.res))
            /\ UNCHANGED pages
         [] way = "throw" ->
            /\ calls' = [calls EXCEPT ![c] = [rec EXCEPT !.st = "threw"]]
            /\ UNCHANGED <<pages, completes>>
         [] OTHER ->
            \* callback && callback(null, res.data, res.pagination, continuation)
            /\ calls' = [calls EXCEPT ![c] =
                   [rec EXCEPT !.offset = Advance(@, o.returned),
                               !.st = IF runs[r].callback THEN "page" ELSE "dropped"]]
            /\ pages' = IF runs[r].callback
                        THEN Append(pages,
                               [run |-> r, call |-> c, err |-> "null",
                                returned |-> o.returned, total |-> o.total])
                        ELSE pages
            /\ UNCHANGED completes
    /\ UNCHANGED <<toStart, runs, apiVars>>

\* the continuation moving the offset it closed over each time it is used
ContinuationAdvancing(c, cont) ==
    /\ LET r == calls[c].run
           left == Left(calls[c].total, calls[c].offset)
           used == [calls EXCEPT ![c].conts = Append(@, cont),
                                 ![c].offset = @ + calls[c].limit]
           do == Decide(cont, left)
       IN
       IF do = "request"
       THEN /\ Cardinality(CallsOf(r)) < MaxCalls
            /\ calls' = Append(used,
                   Paginated(r, c, calls[c].path, calls[c].offset,
                             NextLimit(left, calls[c].limit), runs[r].options))
            /\ UNCHANGED completes
       ELSE /\ calls' = used
            /\ completes' = Completed(r, c, do, <<>>)
    /\ UNCHANGED <<toStart, runs, pages, apiVars>>

\* completed() called after the recursive call too (the else left out)
ContinuationAlwaysCompletes(c, cont) ==
    /\ LET r == calls[c].run
           left == Left(calls[c].total, calls[c].offset)
           used == [calls EXCEPT ![c].conts = Append(@, cont)]
           do == Decide(cont, left)
       IN
       /\ IF do = "request"
          THEN /\ Cardinality(CallsOf(r)) < MaxCalls
               /\ calls' = Append(used,
                      Paginated(r, c, calls[c].path, calls[c].offset,
                                NextLimit(left, calls[c].limit), runs[r].options))
          ELSE calls' = used
       /\ completes' = Completed(r, c, do, <<>>)
    /\ UNCHANGED <<toStart, runs, pages, apiVars>>

\* the continuation closure of page c, invoked with cont
Continuation(c, cont) ==
    /\ LET r == calls[c].run
           left == Left(calls[c].total, calls[c].offset)
           used == [calls EXCEPT ![c].conts = Append(@, cont)]
           do == Decide(cont, left)
       IN
       IF do = "request"
       THEN /\ Cardinality(CallsOf(r)) < MaxCalls
            /\ calls' = Append(used,
                   Paginated(r, c, calls[c].path, calls[c].offset,
                             NextLimit(left, calls[c].limit), runs[r].options))
            /\ UNCHANGED completes
       ELSE /\ calls' = used
            /\ completes' = Completed(r, c, do, <<>>)
    /\ UNCHANGED <<toStart, runs, pages, apiVars>>

\* the caller invokes the continuation of a page it was handed, once
Continue(c, cont) ==
    /\ c \in 1..Len(calls)
    /\ calls[c].st = "page"
    /\ calls[c].conts = <<>>
    /\ Continuation(c, cont)

\* the caller invokes a continuation it has already used
ContinueAgain(c, cont) ==
    /\ c \in 1..Len(calls)
    /\ calls[c].st = "page"
    /\ calls[c].conts # <<>>
    /\ Len(calls[c].conts) < MaxContCalls
    /\ Continuation(c, cont)

CallIds == 1..(MaxCalls * Cardinality(Runs))

Next ==
    \/ \E r \in Runs : getStories(r)
    \/ \E c \in CallIds, o \in Outcomes : Respond(c, o)
    \/ \E c \in CallIds, cont \in BOOLEAN : Continue(c, cont)

Spec == Init /\ [][Next]_vars

\* ------------------------------------------------------- derived notions
Reserved == {"offset", "limit", "envelope"}

Children(p) == {c \in 1..Len(calls) : calls[c].parent = p}

CompletesFor(c) == {i \in 1..Len(completes) : completes[i].call = c}

PagesFor(c) == {i \in 1..Len(pages) : pages[i].call = c}

InFlight(r) == {c \in CallsOf(r) : calls[c].st = "inflight"}

\* the request that started run r, and the offset and page size it carries
FirstCall(r) == CHOOSE c \in CallsOf(r) : calls[c].parent = 0

RECURSIVE Ancestors(_)
Ancestors(c) ==
    IF calls[c].parent = 0 THEN {}
    ELSE {calls[c].parent} \cup Ancestors(calls[c].parent)

RECURSIVE SumReturned(_, _)
\* the sum of pagination.returned over the first n pages delivered to run r
SumReturned(r, n) ==
    IF n = 0 THEN 0
    ELSE SumReturned(r, n - 1) + (IF pages[n].run = r THEN pages[n].returned ELSE 0)

\* the response of call c took the failure path of the claim: a transport
\* error, a body without pagination, or no body
FailureOutcome(c) ==
    /\ calls[c].st # "inflight"
    /\ Truthy(calls[c].err) \/ calls[c].res # "envelope"

\* ----------------------------------------------------------------- claims

\* C1: every failing outcome of a request (transport error, body without a
\* pagination field, no body at all) ends the run on the failure path:
\* onComplete is invoked exactly once with the error, or else the response,
\* onPage is not invoked for it, no exception is raised and no further
\* request is issued.
C1_FailureEndsRun ==
    \A c \in 1..Len(calls) :
        (FailureOutcome(c) /\ runs[calls[c].run].completed) =>
            /\ calls[c].st # "threw"
            /\ Cardinality(CompletesFor(c)) = 1
            /\ \A i \in CompletesFor(c) :
                   completes[i].args = <<JsOr(calls[c].err, calls[c].res)>>
            /\ PagesFor(c) = {}
            /\ Children(c) = {}

\* C2: the query of every request carries the Paginator's own offset and
\* limit and envelope = true, whatever extraParams holds, and every other
\* key of extraParams unchanged.
C2_ReservedKeysOverwritten ==
    \A c \in 1..Len(calls) :
        LET options == runs[calls[c].run].options IN
        /\ DOMAIN calls[c].qs = Reserved \cup DOMAIN options
        /\ calls[c].qs["offset"] = calls[c].reqOffset
        /\ calls[c].qs["limit"] = calls[c].limit
        /\ calls[c].qs["envelope"] = TRUE
        /\ \A k \in DOMAIN options \ Reserved : calls[c].qs[k] = options[k]

\* the runs that ended by natural exhaustion, with the page that ended them
Exhausted(r, c) ==
    \E i \in 1..Len(completes) :
        /\ completes[i].run = r /\ completes[i].call = c
        /\ completes[i].via = "exhausted"

\* C3 as stated: at natural exhaustion the pagination.returned of the pages
\* delivered sum to pagination.total, for every initial offset and limit.
C3_SumEqualsTotal ==
    \A r \in Runs : \A c \in CallsOf(r) :
        Exhausted(r, c) => SumReturned(r, Len(pages)) = calls[c].total

\* C3 amended: at natural exhaustion the initial offset plus the sum of
\* pagination.returned over the pages delivered is at least the last page's
\* pagination.total, and equals it when the last response returned no more
\* than its total minus the offset of its request.
C3_OffsetPlusSumReachesTotal ==
    \A r \in Runs : \A c \in CallsOf(r) :
        Exhausted(r, c) =>
            LET reached == calls[FirstCall(r)].reqOffset + SumReturned(r, Len(pages)) IN
            /\ reached >= calls[c].total
            /\ (calls[c].returned <= calls[c].total - calls[c].reqOffset
                    => reached = calls[c].total)

\* a run started at offset 0 that took two pages to exhaust a collection
C3_Witness ==
    \E r \in Runs : \E c \in CallsOf(r) :
        /\ Exhausted(r, c)
        /\ calls[c].parent # 0
        /\ calls[c].total > 0
        /\ calls[FirstCall(r)].reqOffset + SumReturned(r, Len(pages)) = calls[c].total

\* the offset of call c advanced by the pagination.returned of its response
NewOffset(c) == calls[c].reqOffset + calls[c].returned

\* total - newOffset of page c
Remaining(c) == calls[c].total - NewOffset(c)

\* this step is the caller invoking the continuation of page c with cont
ContinuedWith(c, cont) ==
    /\ calls[c].st = "page"
    /\ calls'[c].conts = Append(calls[c].conts, cont)

\* this step issues exactly one request, from page c, with this offset and limit
IssuesOne(c, offset, limit) ==
    /\ Len(calls') = Len(calls) + 1
    /\ calls'[Len(calls')].parent = c
    /\ calls'[Len(calls')].st = "inflight"
    /\ calls'[Len(calls')].reqOffset = offset
    /\ calls'[Len(calls')].limit = limit

\* C4 as stated: continuation(true) with remaining > 0 issues exactly one
\* request, with offset = newOffset and limit = min(remaining, pageSize),
\* pageSize being the limit the run was started with.
C4_NextLimitFromPageSize ==
    [][\A c \in 1..Len(calls) :
          (ContinuedWith(c, TRUE) /\ Remaining(c) > 0) =>
              IssuesOne(c, NewOffset(c),
                        Min(Remaining(c), calls[FirstCall(calls[c].run)].limit))]_vars

\* C4 amended: continuation(true) with remaining > 0 issues exactly one
\* request, with offset = newOffset and limit = min(remaining, limit of the
\* request that fetched this page).
C4_NextLimitFromPreviousLimit ==
    [][\A c \in 1..Len(calls) :
          (ContinuedWith(c, TRUE) /\ Remaining(c) > 0) =>
              IssuesOne(c, NewOffset(c), Min(Remaining(c), calls[c].limit))]_vars

\* a request issued from a page whose own request had a reduced limit, while
\* more than that limit remained
C4_Witness ==
    \E c \in 1..Len(calls) :
        /\ calls[c].parent # 0
        /\ LET p == calls[c].parent IN
           /\ TRUE \in {calls[p].conts[i] : i \in 1..Len(calls[p].conts)}
           /\ calls[p].limit < calls[FirstCall(calls[c].run)].limit
           /\ Remaining(p) > calls[p].limit
           /\ calls[c].reqOffset = NewOffset(p)
           /\ calls[c].limit = calls[p].limit

StartComplete(r) ==
    \E options \in Options,
       offset \in {Absent} \cup 0..MaxOffset, limit \in {Absent} \cup 0..MaxLimit :
        Start(r, "projects/1/stories", options, TRUE, TRUE, offset, limit)

RespondPage(c, o) ==
    /\ o.res = "envelope"
    /\ o.returned > 0
    /\ c \in 1..Len(calls)
    /\ \A d \in CallsOf(calls[c].run) :
           calls[d].st # "inflight" => calls[d].total = o.total
    /\ Respond(c, o)

Responds == \E c \in CallIds, o \in Outcomes : RespondPage(c, o)

Continues == \E c \in CallIds : Continue(c, TRUE)

NextLive ==
    \/ \E r \in Runs : StartComplete(r)
    \/ Responds
    \/ Continues

\* the transport answers every request and the caller invokes every continuation
SpecLive == Init /\ [][NextLive]_vars /\ WF_vars(Responds) /\ WF_vars(Continues)

\* C6: with a constant total, returned > 0 in every response, every request
\* answered and every continuation invoked once with a truthy value, the run
\* eventually invokes onComplete, and it issues finitely many requests: no
\* more than max(1, total - initial offset).
C6_Terminates ==
    /\ \A r \in Runs :
           runs[r].started ~> (\E i \in 1..Len(completes) : completes[i].run = r)
    /\ [](\A r \in Runs : \A c \in CallsOf(r) :
             calls[c].st # "inflight" =>
                 Cardinality(CallsOf(r)) <=
                     Max(1, calls[c].total - calls[FirstCall(r)].reqOffset))

\* a run that needed a second request and then completed by exhaustion
C6_Witness ==
    \E r \in Runs : \E c \in CallsOf(r) :
        /\ calls[c].parent # 0
        /\ Exhausted(r, c)
        /\ InFlight(r) = {}

\* ----------------------------------------------------- claims, continued
SingleUse(r) == \A c \in CallsOf(r) : Len(calls[c].conts) <= 1

\* C7: when the caller invokes each continuation at most once, a run has at
\* most one request in flight, only its first request has no page behind it,
\* and every later request was issued from a page delivered to onPage whose
\* continuation the caller invoked with a truthy value, after every earlier
\* request of the run was answered.
C7_OneRequestInFlight ==
    \A r \in Runs :
        SingleUse(r) =>
            /\ Cardinality(InFlight(r)) <= 1
            /\ \A c \in CallsOf(r) :
                   IF calls[c].parent = 0
                   THEN \A d \in CallsOf(r) : calls[d].parent = 0 => d = c
                   ELSE LET p == calls[c].parent IN
                        /\ p \in CallsOf(r) /\ p < c
                        /\ calls[p].st = "page"
                        /\ Cardinality(PagesFor(p)) = 1
                        /\ calls[p].conts = <<TRUE>>
                        /\ Children(p) = {c}
                        /\ \A d \in CallsOf(r) : d < c => calls[d].st # "inflight"

\* the second request of a run in flight, issued from the first page
C7_Witness ==
    \E r \in Runs : \E c \in InFlight(r) :
        /\ calls[c].parent # 0
        /\ calls[calls[c].parent].conts = <<TRUE>>
        /\ Cardinality(CallsOf(r)) = 2

\* C8: onComplete gets no arguments when the run ends by exhaustion or by a
\* falsy continuation, and exactly one argument, the error or else the
\* malformed response, on the failure path; it is invoked in no other way.
C8_CompleteArguments ==
    \A i \in 1..Len(completes) :
        LET c == completes[i].call IN
        /\ c \in CallsOf(completes[i].run)
        /\ \/ /\ completes[i].args = <<>>
              /\ calls[c].st = "page"
              /\ \E k \in 1..Len(calls[c].conts) :
                     \/ ~calls[c].conts[k]
                     \/ calls[c].conts[k] /\ Remaining(c) <= 0
           \/ /\ Len(completes[i].args) = 1
              /\ calls[c].st = "failed"
              /\ FailureOutcome(c)
              /\ completes[i].args[1] =
                     (IF Truthy(calls[c].err) THEN calls[c].err ELSE calls[c].res)

\* onComplete invoked with a response that has no pagination field
C8_Witness ==
    \E i \in 1..Len(completes) :
        /\ completes[i].args = <<"bareArray">>
        /\ calls[completes[i].call].err = "null"

\* C9: a falsy value passed to a page's continuation invokes onComplete()
\* within that call, whatever remains, and the run issues no further request
\* and delivers no further page.
C9_DeclineCompletesAtOnce ==
    /\ [][\A c \in 1..Len(calls) :
             ContinuedWith(c, FALSE) =>
                 /\ Len(calls') = Len(calls)
                 /\ pages' = pages
                 /\ runs[calls[c].run].completed =>
                        /\ Len(completes') = Len(completes) + 1
                        /\ completes'[Len(completes')].run = calls[c].run
                        /\ completes'[Len(completes')].call = c
                        /\ completes'[Len(completes')].args = <<>>]_vars
    /\ [](\A c \in 1..Len(calls) :
             (calls[c].conts = <<FALSE>> /\ SingleUse(calls[c].run)) =>
                 /\ InFlight(calls[c].run) = {}
                 /\ Children(c) = {}
                 /\ \A d \in CallsOf(calls[c].run) : d <= c
                 /\ \A i \in 1..Len(pages) :
                        pages[i].run = calls[c].run => pages[i].call <= c)

\* the caller declined after a page although items remained
C9_Witness ==
    \E c \in 1..Len(calls) :
        /\ calls[c].conts = <<FALSE>>
        /\ Remaining(c) > 0
        /\ \E i \in CompletesFor(c) : completes[i].args = <<>>

\* the first response of run r is the empty page of an empty collection
EmptyCollection(r) ==
    /\ runs[r].started /\ runs[r].callback
    /\ calls[FirstCall(r)].res = "envelope"
    /\ calls[FirstCall(r)].total = 0
    /\ calls[FirstCall(r)].returned = 0

\* C10: a truthy value passed to a continuation when total - newOffset <= 0
\* invokes onComplete() and issues no request; when the first response has
\* total = 0 and returned = 0, onPage is invoked once with the empty page and
\* the run completes after that page's continuation, one request in total.
C10_ExhaustionCompletes ==
    /\ [][\A c \in 1..Len(calls) :
             (ContinuedWith(c, TRUE) /\ Remaining(c) <= 0) =>
                 /\ Len(calls') = Len(calls)
                 /\ pages' = pages
                 /\ runs[calls[c].run].completed =>
                        /\ Len(completes') = Len(completes) + 1
                        /\ completes'[Len(completes')].call = c
                        /\ completes'[Len(completes')].args = <<>>]_vars
    /\ [](\A r \in Runs :
             EmptyCollection(r) =>
                 LET c == FirstCall(r)
                     done == {i \in 1..Len(completes) : completes[i].run = r}
                 IN
                 /\ Cardinality(PagesFor(c)) = 1
                 /\ \A i \in PagesFor(c) : pages[i].returned = 0 /\ pages[i].total = 0
                 /\ CallsOf(r) = {c}
                 /\ calls[c].conts = <<>> => done = {}
                 /\ (calls[c].conts # <<>> /\ runs[r].completed) =>
                        /\ Cardinality(done) = 1
                        /\ \A i \in done : completes[i].args = <<>>)

\* an empty collection paged once and completed by its continuation
C10_Witness ==
    \E r \in Runs :
        /\ EmptyCollection(r)
        /\ calls[FirstCall(r)].conts = <<TRUE>>
        /\ Exhausted(r, FirstCall(r))
        /\ Cardinality(CallsOf(r)) = 1

\* ------------------------------------------- a fixed collection (C11)
\* The sizes of the collection the server holds.
MaxItems == 5

Collections == 0..MaxItems \cup {300}

\* the envelope a server holding `total` items returns for the query of call c
ServerAnswer(c, total) ==
    [err |-> "null", res |-> "envelope",
     returned |-> Min(calls[c].qs["limit"], Max(total - calls[c].qs["offset"], 0)),
     total |-> total]

\* the server answers from a collection whose size does not change
RespondFixed(c, total) ==
    /\ c \in 1..Len(calls)
    /\ \A d \in CallsOf(calls[c].run) :
           calls[d].st # "inflight" => calls[d].total = total
    /\ Respond(c, ServerAnswer(c, total))

\* a run started at offset 0 with both callbacks and no reserved key in options
StartAtZero(r) ==
    \E options \in {o \in Options : DOMAIN o \cap Reserved = {}},
       offset \in {Absent, 0}, limit \in {Absent} \cup 0..MaxLimit :
        Start(r, "projects/1/stories", options, TRUE, TRUE, offset, limit)

NextFixed ==
    \/ \E r \in Runs : StartAtZero(r)
    \/ \E c \in CallIds, total \in Collections : RespondFixed(c, total)
    \/ Continues

SpecFixed == Init /\ [][NextFixed]_vars

\* the position of request c among the requests of its run
Position(c) == Cardinality({d \in CallsOf(calls[c].run) : d <= c})

\* the items of the last page as the claim computes them
LastItemsAsStated(total, L) == total - L * ((total - 1) \div L)

\* the same, with the empty collection's single page empty
LastItems(total, L) == IF total = 0 THEN 0 ELSE total - L * ((total - 1) \div L)

\* the requests, pages and completion of every run follow the claim's shape,
\* the last page holding Last(total, L) items
FixedCollectionShape(Last(_, _)) ==
    \A r \in Runs : \A c \in CallsOf(r) :
        LET L == calls[FirstCall(r)].limit
            T == calls[c].total
            isLast == calls[c].reqOffset + L >= T
        IN
        /\ calls[c].reqOffset = (Position(c) - 1) * L
        /\ calls[c].parent # 0 => calls[c].reqOffset < calls[calls[c].parent].total
        /\ calls[c].st # "inflight" =>
               /\ calls[c].st = "page"
               /\ Cardinality(PagesFor(c)) = 1
               /\ calls[c].returned = IF isLast THEN Last(T, L) ELSE L
               /\ IF calls[c].conts = <<>>
                  THEN Children(c) = {} /\ CompletesFor(c) = {}
                  ELSE IF isLast
                  THEN /\ Children(c) = {}
                       /\ Cardinality(CompletesFor(c)) = 1
                       /\ \A i \in CompletesFor(c) : completes[i].args = <<>>
                       /\ Len(completes) = 1
                  ELSE /\ Cardinality(Children(c)) = 1
                       /\ CompletesFor(c) = {}

\* C11 as stated: against a fixed collection of total items a run from
\* offset 0 with page size L requests offsets 0, L, 2L, ... below total (one
\* request when total = 0), every page but the last has L items, the last
\* has total - L*floor((total-1)/L), and onComplete() follows the last page.
C11_FixedCollectionAsStated == FixedCollectionShape(LastItemsAsStated)

\* C11 amended: the same, the last page having total - L*floor((total-1)/L)
\* items when total > 0 and 0 items when total = 0.
C11_FixedCollection == FixedCollectionShape(LastItems)

\* total = 300, L = 128: pages of 128, 128, 44 at offsets 0, 128, 256, then
\* onComplete()
C11_Witness ==
    /\ Len(calls) = 3 /\ Len(pages) = 3
    /\ \A c \in 1..3 : calls[c].total = 300
    /\ <<calls[1].reqOffset, calls[2].reqOffset, calls[3].reqOffset>> = <<0, 128, 256>>
    /\ <<pages[1].returned, pages[2].returned, pages[3].returned>> = <<128, 128, 44>>
    /\ Len(completes) = 1 /\ completes[1].call = 3 /\ completes[1].args = <<>>

\* ------------------------------------------- the three wrappers (C13)
\* getActivity(projectId, options, callback, completed, offset, limit)
getActivity(r) == StartArgs(r, "projects/1/activity")

\* getIterations(projectId, options, callback, completed, offset, limit)
getIterations(r) == StartArgs(r, "projects/1/iterations")

\* any of the paginated wrappers, answered by pages and always continued
NextWrappers ==
    \/ \E r \in Runs : getStories(r)
    \/ \E r \in Runs : getActivity(r)
    \/ \E r \in Runs : getIterations(r)
    \/ Responds
    \/ Continues

SpecWrappers == Init /\ [][NextWrappers]_vars

\* the first request of run r carries offset 0 when none was passed and limit
\* 128 when none was passed, and no later request asks for more than the
\* first: each asks for min(remaining, limit of the request before it)
DefaultsApplied(r) ==
    LET f == calls[FirstCall(r)] IN
    /\ runs[r].offset = Absent => f.reqOffset = DefaultOffset
    /\ runs[r].limit = Absent =>
           /\ f.limit = DefaultLimit
           /\ \A c \in CallsOf(r) :
                  calls[c].parent # 0 =>
                      /\ calls[c].limit <= DefaultLimit
                      /\ calls[c].limit =
                             Min(Remaining(calls[c].parent), calls[calls[c].parent].limit)

InitTwo ==
    /\ toStart = Runs
    /\ runs = [r \in Runs |-> Idle]
    /\ calls = <<>>
    /\ pages = <<>>
    /\ completes = <<>>
    /\ apis = <<>>
    /\ http = <<>>
    /\ invoked = <<>>
    /\ attach = <<>>
    /\ thrown = <<>>

\* getStories(projectId, {}, callback, completed, undefined, limit)
StartPlain(r) ==
    \E limit \in 1..MaxLimit :
        Start(r, "projects/1/stories", NoOptions, TRUE, TRUE, Absent, limit)

\* the server answers from a collection of constant size: empty, or larger
\* than any page the caller asks for
RespondSmall(c) == \E total \in {0, MaxLimit + 1} : RespondFixed(c, total)

\* the transport fails
RespondError(c) ==
    \E e \in TransportErrors :
        Respond(c, [err |-> e, res |-> "undefined", returned |-> 0, total |-> 0])

NextTwo ==
    \/ \E r \in Runs : StartPlain(r)
    \/ \E c \in CallIds : RespondSmall(c)
    \/ \E c \in CallIds : RespondError(c)
    \/ \E c \in CallIds, cont \in BOOLEAN : Continue(c, cont)

SpecTwo == InitTwo /\ [][NextTwo]_vars

\* everything run r has: its invocations with their offset counters, the
\* pages it was handed and its completions
RunView(r) ==
    <<[c \in CallsOf(r) |-> calls[c]],
      SelectSeq(pages, LAMBDA x : x.run = r),
      SelectSeq(completes, LAMBDA x : x.run = r)>>

\* run r went as it would have gone alone: every request, offset counter and
\* terminal callback follows from the run's own arguments and responses
AsIfAlone(r) ==
    \A c \in CallsOf(r) :
        /\ IF calls[c].parent = 0
           THEN /\ calls[c].reqOffset = NumOr(runs[r].offset, DefaultOffset)
                /\ calls[c].limit = NumOr(runs[r].limit, DefaultLimit)
           ELSE LET p == calls[c].parent IN
                /\ p \in CallsOf(r)
                /\ calls[c].reqOffset = NewOffset(p)
                /\ calls[c].limit = Min(Remaining(p), calls[p].limit)
        /\ calls[c].offset =
               IF calls[c].st = "page" THEN NewOffset(c) ELSE calls[c].reqOffset
        /\ \A i \in CompletesFor(c) : completes[i].run = r
        /\ CASE calls[c].st = "failed" ->
                  /\ Children(c) = {}
                  /\ {completes[i].args : i \in CompletesFor(c)} = {<<calls[c].err>>}
                  /\ Cardinality(CompletesFor(c)) = 1
             [] calls[c].st = "page" /\ calls[c].conts # <<>> ->
                  IF calls[c].conts[1] /\ Remaining(c) > 0
                  THEN Cardinality(Children(c)) = 1 /\ CompletesFor(c) = {}
                  ELSE /\ Children(c) = {}
                       /\ {completes[i].args : i \in CompletesFor(c)} = {<<>>}
                       /\ Cardinality(CompletesFor(c)) = 1
             [] OTHER -> Children(c) = {} /\ CompletesFor(c) = {}

\* C14: with two runs interleaved on one client in any order of responses
\* and continuation calls, each run's requests (offsets and limits) and its
\* terminal callback are what they would be alone, and no step of one run
\* changes anything of the other, its offset counters included.
C14_SessionIsolation ==
    /\ [](\A r \in Runs : AsIfAlone(r))
    /\ [][\A r1, r2 \in Runs :
             r1 # r2 => (RunView(r1)' = RunView(r1) \/ RunView(r2)' = RunView(r2))]_vars

\* both runs mid-way, their requests interleaved, at different offsets
C14_Witness ==
    /\ Len(calls) >= 4
    /\ calls[1].run # calls[2].run
    /\ calls[3].run # calls[4].run
    /\ calls[3].reqOffset # calls[4].reqOffset
    /\ calls[3].reqOffset > 0 /\ calls[4].reqOffset > 0

\* ----------------------------------------------------- claims, continued
CompletesOfRun(r) == {i \in 1..Len(completes) : completes[i].run = r}

PagesOfRun(r) == {i \in 1..Len(pages) : pages[i].run = r}

\* page c returned nothing although items remain
Stalled(c) ==
    /\ calls[c].st = "page"
    /\ calls[c].returned = 0
    /\ Remaining(c) > 0

\* so far every response of run r was a stalled page and the caller continued
StallOnly(r) ==
    /\ runs[r].started
    /\ \A c \in CallsOf(r) :
           \/ calls[c].st = "inflight"
           \/ Stalled(c) /\ calls[c].conts \in {<<>>, <<TRUE>>}

\* C15: a page with returned = 0 and total - offset > 0, continued, is
\* followed by a request at the same offset as the one before; while the
\* server keeps answering so and the caller keeps continuing, every
\* continuation issues one more request at that offset and onComplete is
\* not invoked.
C15_StallRepeatsOffset ==
    /\ [][\A c \in 1..Len(calls) :
             (ContinuedWith(c, TRUE) /\ Stalled(c)) =>
                 /\ IssuesOne(c, calls[c].reqOffset, Min(Remaining(c), calls[c].limit))
                 /\ completes' = completes]_vars
    /\ [](\A r \in Runs :
             StallOnly(r) =>
                 /\ CompletesOfRun(r) = {}
                 /\ \A c \in CallsOf(r) :
                        calls[c].reqOffset = calls[FirstCall(r)].reqOffset
                 /\ Cardinality(CallsOf(r)) =
                        1 + Cardinality({c \in CallsOf(r) : calls[c].conts = <<TRUE>>}))

\* three requests at one offset, the first two answered by stalled pages
C15_Witness ==
    \E r \in Runs :
        /\ StallOnly(r)
        /\ Cardinality(CallsOf(r)) = 3
        /\ Cardinality(InFlight(r)) = 1
        /\ \A c \in CallsOf(r) : calls[c].reqOffset = calls[FirstCall(r)].reqOffset

\* C16: when the caller invokes each continuation at most once, onComplete
\* is invoked at most once per run, and once it has been invoked the run
\* issues no request, delivers no page and completes no more.
C16_CompleteIsTerminal ==
    /\ [](\A r \in Runs : SingleUse(r) => Cardinality(CompletesOfRun(r)) <= 1)
    /\ [][\A r \in Runs :
             (SingleUse(r) /\ CompletesOfRun(r) # {}) =>
                 /\ CallsOf(r)' = CallsOf(r)
                 /\ PagesOfRun(r)' = PagesOfRun(r)
                 /\ CompletesOfRun(r)' = CompletesOfRun(r)
                 /\ InFlight(r) = {}]_vars

\* a run completed after its second page, nothing left in flight
C16_Witness ==
    \E r \in Runs :
        /\ Cardinality(CompletesOfRun(r)) = 1
        /\ Cardinality(PagesOfRun(r)) = 2
        /\ InFlight(r) = {}

\* C17: every request has offset >= 0 and limit > 0, and every request after
\* the first has a limit no larger than total - offset of the response
\* before it and no larger than the limit of the request before it.
C17_RequestsWellFormed ==
    \A c \in 1..Len(calls) :
        /\ calls[c].reqOffset >= 0
        /\ calls[c].limit > 0
        /\ calls[c].parent # 0 =>
               /\ calls[c].limit <= Remaining(calls[c].parent)
               /\ calls[c].limit <= calls[calls[c].parent].limit

\* a later request whose limit was cut down to what remained
C17_Witness ==
    \E c \in 1..Len(calls) :
        /\ calls[c].parent # 0
        /\ calls[c].limit = Remaining(calls[c].parent)
        /\ calls[c].limit < calls[calls[c].parent].limit
        /\ calls[c].reqOffset > 0

\* ------------------------------------------- a continuation reused (C18)
\* the caller invokes a continuation it has already used, again with a
\* truthy value
ContinuesAgain == \E c \in CallIds : ContinueAgain(c, TRUE)

NextReuse ==
    \/ \E r \in Runs : StartPlain(r)
    \/ \E c \in CallIds : RespondSmall(c)
    \/ \E c \in CallIds : RespondError(c)
    \/ \E c \in CallIds, cont \in BOOLEAN : Continue(c, cont)
    \/ ContinuesAgain

SpecReuse == Init /\ [][NextReuse]_vars

\* the number of truthy values the continuation of page c was invoked with
TruthyUses(c) ==
    Cardinality({k \in 1..Len(calls[c].conts) : calls[c].conts[k]})

\* C18: invoking a continuation leaves the state it closed over unchanged,
\* so every truthy invocation on a page with remaining > 0, the first or a
\* later one, issues one request with the same path, offset and limit.
C18_ReuseRepeatsRequest ==
    /\ [][\A c \in 1..Len(calls) :
             calls[c].st = "page" =>
                 /\ calls'[c] = [calls[c] EXCEPT !.conts = calls'[c].conts]
                 /\ (ContinuedWith(c, TRUE) /\ Remaining(c) > 0) =>
                        /\ IssuesOne(c, NewOffset(c), Min(Remaining(c), calls[c].limit))
                        /\ calls'[Len(calls')].path = calls[c].path]_vars
    /\ [](\A c \in 1..Len(calls) :
             /\ \A d1, d2 \in Children(c) :
                    /\ calls[d1].path = calls[d2].path
                    /\ calls[d1].reqOffset = calls[d2].reqOffset
                    /\ calls[d1].limit = calls[d2].limit
             /\ (calls[c].st = "page" /\ Remaining(c) > 0) =>
                    Cardinality(Children(c)) = TruthyUses(c))

\* one page continued twice with truthy values: two identical requests of
\* the run in flight at once
C18_Witness ==
    \E c \in 1..Len(calls) : \E d1, d2 \in Children(c) :
        /\ d1 # d2
        /\ calls[c].conts = <<TRUE, TRUE>>
        /\ {d1, d2} \subseteq InFlight(calls[c].run)
        /\ calls[d1].path = calls[d2].path
        /\ calls[d1].reqOffset = calls[d2].reqOffset
        /\ calls[d1].limit = calls[d2].limit

\* after such a reuse onComplete has been invoked twice in one run
C18_CompletedTwice ==
    \E r \in Runs : Cardinality(CompletesOfRun(r)) >= 2

\* ------------------------------------------- the Request Executor (C12)
\* direct api() calls a caller makes
MaxApiCalls == 2

\* JS values whose type the code's tests depend on
Undefined == [t |-> "undefined"]
Null == [t |-> "null"]
Bool(b) == [t |-> "boolean", b |-> b]
Num(n) == [t |-> "number", n |-> n]
Str(s) == [t |-> "string", s |-> s]
Obj(o) == [t |-> "object", o |-> o]

\* the truth value of v in a condition
ToBoolean(v) ==
    CASE v.t = "undefined" -> FALSE
      [] v.t = "null" -> FALSE
      [] v.t = "boolean" -> v.b
      [] v.t = "number" -> v.n # 0
      [] v.t = "string" -> v.s # ""
      [] OTHER -> TRUE

\* v.k on a value that is neither undefined nor null: a string has no such
\* property
Get(v, k) ==
    IF v.t = "object" /\ k \in DOMAIN v.o THEN v.o[k] ELSE Undefined

\* what the transport can deliver
TransportError == Obj([code |-> Str("ECONNRESET")])
StatusCodes == {200, 500}
AttachmentJson == "{\"kind\":\"file_attachment\",\"id\":7}"
ErrorJson == "{\"kind\":\"error\",\"error\":\"bad\",\"general_problem\":\"why\"}"
WireBodies == {AttachmentJson, ErrorJson, "<html>", ""}

NoOutcome == [err |-> Undefined, statusCode |-> 0, wire |-> ""]
HttpOutcomes ==
    {[err |-> TransportError, statusCode |-> 0, wire |-> ""]}
    \cup {[err |-> Null, statusCode |-> sc, wire |-> w] :
             sc \in StatusCodes, w \in WireBodies}

\* JSON.parse(s) succeeds
Parses(s) == s \in {AttachmentJson, ErrorJson}

\* JSON.parse(s) where it succeeds
JsonParse(s) ==
    CASE s = AttachmentJson ->
             Obj([kind |-> Str("file_attachment"), id |-> Num(7)])
      [] s = ErrorJson ->
             Obj([kind |-> Str("error"), error |-> Str("bad"),
                  general_problem |-> Str("why")])

\* the request was made with a truthy json option
WantsJson(opts) == "json" \in DOMAIN opts /\ ToBoolean(opts["json"])

\* the second argument request() passes to its callback
Response(o) ==
    IF ToBoolean(o.err) THEN Undefined
    ELSE [t |-> "response", statusCode |-> o.statusCode]

\* the third argument request() passes to its callback: the body, parsed
\* under the json option when it parses, the text otherwise; an empty reply
\* under json leaves it undefined
Body(opts, o) ==
    IF ToBoolean(o.err) THEN Undefined
    ELSE IF WantsJson(opts)
         THEN IF Parses(o.wire) THEN JsonParse(o.wire)
              ELSE IF o.wire = "" THEN Undefined ELSE Str(o.wire)
         ELSE Str(o.wire)

\* the options objects direct callers of api() pass
ApiOptions == {NoOptions, [k \in {"json"} |-> Bool(FALSE)]}

\* opts = _.extend({method, url, json: true, headers}, options)
ApiOpts(method, path, options) ==
    Extend([method |-> Str(method), url |-> Str(path), json |-> Bool(TRUE),
            headers |-> Str("X-TrackerToken")],
           options)

\* the activation record of api(method, path, options, callback); from is
\* the postAttachment call that made it, 0 for a direct call
ApiCall(method, path, options, callback, from) ==
    [method |-> method, path |-> path, options |-> options,
     callback |-> callback, from |-> from]

\* request(opts, ...) as issued by the api call a
ApiRequest(a, method, path, options) ==
    [kind |-> "api", call |-> a, opts |-> ApiOpts(method, path, options),
     st |-> "sent", o |-> NoOutcome]

DirectCalls == {a \in 1..Len(apis) : apis[a].from = 0}

\* api(method, path, options, callback): one request is issued
Api(method, path, options, callback) ==
    /\ Cardinality(DirectCalls) < MaxApiCalls
    /\ apis' = Append(apis, ApiCall(method, path, options, callback, 0))
    /\ http' = Append(http, ApiRequest(Len(apis) + 1, method, path, options))
    /\ UNCHANGED <<invoked, attach, thrown, pagVars>>

CallApi ==
    \E options \in ApiOptions, callback \in BOOLEAN :
        Api("get", "projects", options, callback)

\* a server error status turned into an error
ApiCallbackArgsByStatus(err, response, result) ==
    IF response.t = "response" /\ response.statusCode >= 400
    THEN <<Str("status"), Undefined>>
    ELSE <<err, result>>

\* callback(err, result)
ApiCallbackArgs(err, response, result) == <<err, result>>

\* request's callback in api: function(err, response, result)
ApiResponse(h, o) ==
    /\ h \in 1..Len(http)
    /\ http[h].kind = "api"
    /\ http[h].st = "sent"
    /\ LET a == http[h].call
           err == o.err
           response == Response(o)
           result == Body(http[h].opts, o)
       IN  /\ http' = [http EXCEPT ![h].st = "answered", ![h].o = o]
           /\ invoked' =
                  IF apis[a].callback
                  THEN Append(invoked,
                           [api |-> a, attach |-> apis[a].from,
                            args |-> ApiCallbackArgs(err, response, result)])
                  ELSE invoked
    /\ UNCHANGED <<apis, attach, thrown, pagVars>>

HttpIds == 1..(MaxApiCalls + 4)

NextApi ==
    \/ CallApi
    \/ \E h \in HttpIds, o \in HttpOutcomes : ApiResponse(h, o)

SpecApi == Init /\ [][NextApi]_vars

\* the requests made by the api call a, and the invocations of its callback
RequestsOf(a) == {h \in 1..Len(http) : http[h].kind = "api" /\ http[h].call = a}
InvocationsOf(a) == {i \in 1..Len(invoked) : invoked[i].api = a}

\* C12: every api call performs exactly one HTTP request (none is retried);
\* when it was given a callback, the callback is not invoked while the
\* request is unanswered and has been invoked exactly once when it is
\* answered: with (transport error, undefined) when the transport failed and
\* with (null, response body) when it succeeded, whatever the status code.
C12_OneRequestOneCallback ==
    \A a \in 1..Len(apis) :
        /\ Cardinality(RequestsOf(a)) = 1
        /\ apis[a].callback =>
               \A h \in RequestsOf(a) :
                   /\ http[h].st = "sent" => InvocationsOf(a) = {}
                   /\ http[h].st = "answered" =>
                          /\ Cardinality(InvocationsOf(a)) = 1
                          /\ \A i \in InvocationsOf(a) :
                                 invoked[i].args =
                                     IF http[h].o.err = TransportError
                                     THEN <<TransportError, Undefined>>
                                     ELSE <<Null, Body(http[h].opts, http[h].o)>>
        /\ ~apis[a].callback => InvocationsOf(a) = {}

\* a call answered with status 500 and an error body: its callback was
\* invoked once with a null error and the parsed body; another call failed
\* in transport and got the error
C12_Witness ==
    \E a, b \in DirectCalls : \E h \in RequestsOf(a), g \in RequestsOf(b) :
        /\ apis[a].callback /\ apis[b].callback
        /\ http[h].st = "answered" /\ http[g].st = "answered"
        /\ http[h].o.statusCode = 500
        /\ http[h].o.wire = ErrorJson
        /\ \E i \in InvocationsOf(a) :
               invoked[i].args = <<Null, JsonParse(ErrorJson)>>
        /\ http[g].o.err = TransportError
        /\ \E i \in InvocationsOf(b) :
               invoked[i].args = <<TransportError, Undefined>>

\* ------------------------------------------------- postAttachment (C19)
\* postAttachment() calls a caller makes
MaxAttachments == 1

\* what fs.readFile hands over: the file's contents, or undefined with an
\* error the code does not look at
FileContents == {Undefined, Str("bytes")}

\* the options of request.post for the upload: no json option
UploadOpts(contents) ==
    [url |-> Str("uploads"), multipart |-> contents,
     headers |-> Str("X-TrackerToken")]

\* {json: {text: comment, file_attachments: [JSON.parse(upload)]}}
CommentOptions(upload) ==
    [k \in {"json"} |->
        Obj([text |-> Str("comment"), file_attachments |-> JsonParse(upload.s)])]

\* upload.error + ' (' + upload.general_problem + ')'
Message(upload) ==
    [t |-> "string", error |-> Get(upload, "error"),
     problem |-> Get(upload, "general_problem")]

\* {success: false, error: upload ? ... : err}
FailureResult(err, upload) ==
    Obj([success |-> Bool(FALSE),
         error |-> IF ToBoolean(upload) THEN Message(upload) ELSE err])

\* the path the upload handler takes: if (err || upload.kind == 'error')
\* ... else ... JSON.parse(upload)
UploadBranch(err, upload) ==
    IF ToBoolean(err) THEN "failed"
    ELSE IF upload.t \in {"undefined", "null"} THEN "TypeError"
    ELSE IF Get(upload, "kind") = Str("error") THEN "failed"
    ELSE IF upload.t = "string" /\ Parses(upload.s) THEN "comment"
    ELSE "SyntaxError"

\* postAttachment(projectId, storyId, filepath, type, comment, callback):
\* fs.readFile is started
PostAttachment(callback) ==
    /\ Len(attach) < MaxAttachments
    /\ attach' = Append(attach,
           [st |-> "reading", callback |-> callback, o |-> NoOutcome])
    /\ UNCHANGED <<apis, http, invoked, thrown, pagVars>>

\* readFile's callback: request.post is issued whatever the read's outcome
ReadFile(p, contents) ==
    /\ p \in 1..Len(attach)
    /\ attach[p].st = "reading"
    /\ attach' = [attach EXCEPT ![p].st = "uploading"]
    /\ http' = Append(http,
           [kind |-> "upload", call |-> p, opts |-> UploadOpts(contents),
            st |-> "sent", o |-> NoOutcome])
    /\ UNCHANGED <<apis, invoked, thrown, pagVars>>

\* request.post's callback: function(err, res, upload)
UploadResponse(h, o) ==
    /\ h \in 1..Len(http)
    /\ http[h].kind = "upload"
    /\ http[h].st = "sent"
    /\ LET p == http[h].call
           err == o.err
           upload == Body(http[h].opts, o)
           branch == UploadBranch(err, upload)
           answered == [http EXCEPT ![h].st = "answered", ![h].o = o]
       IN  CASE branch = "failed" /\ attach[p].callback ->
                    /\ invoked' = Append(invoked,
                           [api |-> 0, attach |-> p,
                            args |-> <<err, FailureResult(err, upload)>>])
                    /\ attach' = [attach EXCEPT ![p].st = "failed", ![p].o = o]
                    /\ http' = answered
                    /\ UNCHANGED <<apis, thrown>>
             [] branch = "failed" /\ ~attach[p].callback ->
                    \* callback(...) on a value that is not a function
                    /\ thrown' = Append(thrown, [attach |-> p, error |-> "TypeError"])
                    /\ attach' = [attach EXCEPT ![p].st = "threw", ![p].o = o]
                    /\ http' = answered
                    /\ UNCHANGED <<apis, invoked>>
             [] branch = "comment" ->
                    /\ apis' = Append(apis,
                           ApiCall("post", "comments", CommentOptions(upload),
                                   attach[p].callback, p))
                    /\ http' = Append(answered,
                           ApiRequest(Len(apis) + 1, "post", "comments",
                                      CommentOptions(upload)))
                    /\ attach' = [attach EXCEPT ![p].st = "commenting", ![p].o = o]
                    /\ UNCHANGED <<invoked, thrown>>
             [] OTHER ->
                    /\ thrown' = Append(thrown, [attach |-> p, error |-> branch])
                    /\ attach' = [attach EXCEPT ![p].st = "threw", ![p].o = o]
                    /\ http' = answered
                    /\ UNCHANGED <<apis, invoked>>
    /\ UNCHANGED pagVars

NextAttach ==
    \/ \E callback \in BOOLEAN : PostAttachment(callback)
    \/ \E p \in 1..MaxAttachments + 1, contents \in FileContents : ReadFile(p, contents)
    \/ \E h \in HttpIds, o \in HttpOutcomes : UploadResponse(h, o)
    \/ \E h \in HttpIds, o \in HttpOutcomes : ApiResponse(h, o)

SpecAttach == Init /\ [][NextAttach]_vars

\* the upload requests, comment-creation requests and callback invocations
\* of the postAttachment call p
UploadsOf(p) == {h \in 1..Len(http) : http[h].kind = "upload" /\ http[h].call = p}
CommentsOf(p) == {a \in 1..Len(apis) : apis[a].from = p}
CallbacksOf(p) == {i \in 1..Len(invoked) : invoked[i].attach = p}

\* the kind of the upload's response, read from its body
ResponseKind(o) ==
    IF Parses(o.wire) THEN Get(JsonParse(o.wire), "kind") ELSE Undefined

\* the upload's response arrived with no transport error and without kind
\* 'error'
UploadSucceeded(h) ==
    /\ http[h].st = "answered"
    /\ ~ToBoolean(http[h].o.err)
    /\ ResponseKind(http[h].o) # Str("error")

\* the upload failed in transport or its response has kind 'error'
UploadFailed(h) ==
    /\ http[h].st = "answered"
    /\ \/ ToBoolean(http[h].o.err)
       \/ ResponseKind(http[h].o) = Str("error")

\* C19: postAttachment uploads at most once and creates the comment at most
\* once, and only after the upload's response arrived with no transport
\* error and without kind 'error'; when the upload failed in transport or
\* its response has kind 'error', no comment-creation request is issued and
\* the caller's callback has been invoked exactly once, with a result whose
\* success is false.
C19_CommentOnlyAfterUpload ==
    \A p \in 1..Len(attach) :
        /\ Cardinality(UploadsOf(p)) <= 1
        /\ Cardinality(CommentsOf(p)) <= 1
        /\ CommentsOf(p) # {} => \E h \in UploadsOf(p) : UploadSucceeded(h)
        /\ \A h \in UploadsOf(p) :
               UploadFailed(h) =>
                   /\ CommentsOf(p) = {}
                   /\ attach[p].callback =>
                          /\ Cardinality(CallbacksOf(p)) = 1
                          /\ \A i \in CallbacksOf(p) :
                                 Get(invoked[i].args[2], "success") = Bool(FALSE)

====
